---- MODULE Spec2Model ----
(***************************************************************************)
(* The export engine of cvs-fast-export: export_blob, export_commit,       *)
(* canonicalize, the Phase-B sort and export_commits, as a state machine   *)
(* whose output is the fast-import stream, one element per line written.   *)
(***************************************************************************)
EXTENDS Integers, Sequences, FiniteSets, TLC

(***************************************************************************)
(* Bounds of the model.                                                    *)
(***************************************************************************)
\* commit dates are drawn from 0..MaxDate (seconds after the RCS epoch)
MaxDate == 2
\* every master has revisions 1..MaxRev
MaxRev == 2

(***************************************************************************)
(* Program constants.                                                      *)
(***************************************************************************)
\* display_date: "The magic number 100000 avoids generating forced UTC times
\* that might be negative in some timezone"
FORCE_BASE == 100000
\* #define SMALL_REPOSITORY 1000000
SMALL_REPOSITORY == 1000000
\* RCS_EPOCH and commit_time_window come from outside the export engine; the
\* model scales them down, the arithmetic of display_date is kept.
RCS_EPOCH == 10
commit_time_window == 1

(***************************************************************************)
(* Strings are sequences of one-character strings; Alphabet lists the      *)
(* characters the model uses in ASCII order, so that strcmp can be         *)
(* computed as the C library computes it.                                  *)
(***************************************************************************)
Alphabet == <<",", ".", "/", "A", "C", "R", "S", "a", "b", "c", "e", "g", "i", "n", "o", "r", "s", "t", "v", "x">>

Ord(ch) == CHOOSE i \in 1..Len(Alphabet) : Alphabet[i] = ch

Min(a, b) == IF a < b THEN a ELSE b

RECURSIVE StrCmpFrom(_, _, _)
StrCmpFrom(a, b, i) ==
    IF i > Len(a) /\ i > Len(b) THEN 0
    ELSE IF i > Len(a) THEN -1
    ELSE IF i > Len(b) THEN 1
    ELSE IF a[i] # b[i] THEN Ord(a[i]) - Ord(b[i])
    ELSE StrCmpFrom(a, b, i + 1)

\* strcmp(a, b)
strcmp(a, b) == StrCmpFrom(a, b, 1)

\* the last n characters of s
Suffix(s, n) == SubSeq(s, Len(s) - n + 1, Len(s))

\* s contains sub as a substring (strstr(s, sub) != NULL)
Contains(s, sub) ==
    \E i \in 1..(Len(s) - Len(sub) + 1) : SubSeq(s, i, i + Len(sub) - 1) = sub

DotCvsignore == <<".", "c", "v", "s", "i", "g", "n", "o", "r", "e">>
DotGitignore == <<".", "g", "i", "t", "i", "g", "n", "o", "r", "e">>
AtticSlash == <<"A", "t", "t", "i", "c", "/">>
RcsSlash == <<"R", "C", "S", "/">>
CommaV == <<",", "v">>

(***************************************************************************)
(* fileop_name: copy the rectified master name and, when its last ten      *)
(* characters are ".cvsignore", overwrite three of them to make            *)
(* ".gitignore".                                                           *)
(***************************************************************************)
fileop_name(rectified) ==
    LET rlen == Len(rectified) IN
    IF rlen >= 10 /\ Suffix(rectified, 10) = DotCvsignore
    THEN [i \in 1..rlen |-> IF i = rlen - 8 THEN "g"
                            ELSE IF i = rlen - 7 THEN "i"
                            ELSE IF i = rlen - 6 THEN "t"
                            ELSE rectified[i]]
    ELSE rectified


(***************************************************************************)
(* export_commit, lines 477-482: "git fast-import only supports 644 and    *)
(* 755 file modes".  Modes are numbers; 0100 is 64, 0755 is 493, 0644 is   *)
(* 420.                                                                    *)
(***************************************************************************)
\* a faulty variant of fileop_mode that looks at all three execute bits
fileop_mode_anyexec(mode) ==
    IF (mode \div 64) % 2 = 1 \/ (mode \div 8) % 2 = 1 \/ mode % 2 = 1
    THEN 493 ELSE 420

\* lines 477-482: the test is mode & 0100
fileop_mode(mode) == IF (mode \div 64) % 2 = 1 THEN 493 ELSE 420

\* printf("%o"): the octal digits of n, most significant first
RECURSIVE OctalDigits(_)
OctalDigits(n) == IF n < 8 THEN <<n>> ELSE Append(OctalDigits(n \div 8), n % 8)

\* printf("M 100%o ..."): the mode field as written
ModeField(mode) == <<1, 0, 0>> \o OctalDigits(mode)

(***************************************************************************)
(* path_deep_compare is defined outside the files at hand; it is modelled  *)
(* from its description at fileop_sort: lexicographic with a sentinel      *)
(* appended, so that "a/b/c" < "a/b" < "a": where one path ends and the    *)
(* other goes on, the one that ended sorts after.                          *)
(***************************************************************************)
RECURSIVE PathCmpFrom(_, _, _)
PathCmpFrom(a, b, i) ==
    IF i > Len(a) /\ i > Len(b) THEN 0
    ELSE IF i > Len(a) THEN 1
    ELSE IF i > Len(b) THEN -1
    ELSE IF a[i] # b[i] THEN Ord(a[i]) - Ord(b[i])
    ELSE PathCmpFrom(a, b, i + 1)

path_deep_compare(a, b) == IF a = b THEN 0 ELSE PathCmpFrom(a, b, 1)

\* fileop_sort(a, b)
fileop_sort(oa, ob) == path_deep_compare(oa.path, ob.path)

\* a faulty variant of display_date that ignores force_dates
display_date_unforced(date, m, f) == date + RCS_EPOCH

\* display_date(c, m, f) with c->date passed as date
display_date(date, m, f) ==
    IF f THEN FORCE_BASE + m * commit_time_window * 2 ELSE date + RCS_EPOCH

(***************************************************************************)
(* Permutations and qsort.  qsort leaves the order of elements that        *)
(* compare equal unspecified: its result is any arrangement of the array   *)
(* in which no element is followed by one the comparator puts before it.   *)
(***************************************************************************)
Perms(n) == {p \in [1..n -> 1..n] : \A i, j \in 1..n : i # j => p[i] # p[j]}

Arrange(arr, p) == [i \in 1..Len(arr) |-> arr[p[i]]]

\* line 585: qsort(operations, ..., fileop_sort)
qsort_operations(arr) ==
    {Arrange(arr, p) :
        p \in {q \in Perms(Len(arr)) :
                 \A i \in 1..(Len(arr) - 1) : fileop_sort(arr[q[i]], arr[q[i + 1]]) <= 0}}


(***************************************************************************)
(* State.                                                                  *)
(*   repo, opts   the DAG handed over by the merge phase and the options   *)
(*   reportmode   opts->reportmode once export_commits has resolved it     *)
(*   pc           where export_commits stands                              *)
(*   seqno, mark, markmap, blobdir, need_ignores   the statics of the file *)
(*   fserial, femitted   serial and emitted of every file revision         *)
(*   cserial      serial of every commit                                   *)
(*   blobs        the serials that have a blob file below blobdir          *)
(*   gen          the file revisions the generators have yet to deliver    *)
(*   history, hp  the commit_seq array and the index of the next entry     *)
(*   hd           fast mode: the index of the next branch head             *)
(*   sortable     the outcome of the topological check                     *)
(*   announced    the number of calls of announce()                        *)
(*   stream       stdout, one element per line                             *)
(*   run, prev    the number of this run and the stream of the run before  *)
(***************************************************************************)
VARIABLES repo, opts, reportmode, pc, seqno, mark, markmap, blobdir,
          need_ignores, fserial, femitted, cserial, blobs, gen, history, hp,
          hd, sortable, announced, stream, run, prev

vars == <<repo, opts, reportmode, pc, seqno, mark, markmap, blobdir,
          need_ignores, fserial, femitted, cserial, blobs, gen, history, hp,
          hd, sortable, announced, stream, run, prev>>

NULL == 0

(***************************************************************************)
(* The input.  Commits are 1..n and parent[c] < c (0 is NULL).  The heads  *)
(* are built the way the merge phase leaves them: the first child of a     *)
(* commit continues its branch, any other child is the root of a new       *)
(* branch and carries the tail flag; branches are listed in the order of   *)
(* their roots, so that a parent's branch comes before its children's.     *)
(***************************************************************************)
ParentFns(n) == {p \in [1..n -> 0..(n - 1)] : \A c \in 1..n : p[c] < c}

FirstChild(p, c) == p[c] # 0 /\ \A d \in 1..(c - 1) : p[d] # p[c]

RECURSIVE RootOf(_, _)
RootOf(p, c) == IF FirstChild(p, c) THEN RootOf(p, p[c]) ELSE c

Max(S) == CHOOSE x \in S : \A y \in S : y <= x

RECURSIVE SortedSeq(_)
SortedSeq(S) ==
    IF S = {} THEN <<>>
    ELSE LET x == CHOOSE y \in S : \A z \in S : y <= z
         IN <<x>> \o SortedSeq(S \ {x})

BranchNames == <<"master", "side", "topic">>

Heads(p, tailhead) ==
    LET n == Len(p)
        roots == SortedSeq({c \in 1..n : RootOf(p, c) = c})
        own == [i \in 1..Len(roots) |->
                  [ref_name |-> BranchNames[i],
                   commit |-> Max({c \in 1..n : RootOf(p, c) = roots[i]}),
                   tail |-> FALSE]]
    IN IF tailhead = 0 THEN own
       ELSE Append(own, [ref_name |-> "shared", commit |-> tailhead, tail |-> TRUE])

NameA == <<"a">>
NameB == <<"b">>

\* the largest value of serial_t, with the 16-bit serial_t of a default build
SERIAL_MAX == 65535

Repo(p, date, author, tree, mname, mmode, mbloom, tailhead, textsize) ==
    [parent |-> p, date |-> date, author |-> author,
     log |-> [c \in 1..Len(p) |-> <<"x">>],
     ctail |-> [c \in 1..Len(p) |-> RootOf(p, c) = c /\ p[c] # 0],
     tree |-> tree, mname |-> mname, mmode |-> mmode, mbloom |-> mbloom,
     heads |-> Heads(p, tailhead),
     tags |-> <<[name |-> "v1", commit |-> Min(2, Len(p))]>>,
     textsize |-> textsize, maxserial |-> SERIAL_MAX]

\* the trees when it is not the trees that are varied: every commit brings
\* one new file revision, of master 1 in odd commits and of master 2 in even
\* commits
DefaultTree(n) ==
    [c \in 1..n |-> IF c % 2 = 1 THEN <<(c + 1) \div 2, 0>> ELSE <<0, c \div 2>>]
DefaultNames == <<NameA, NameB>>
DefaultModes == <<420, 493>>
DefaultBloom == <<{1}, {2}>>

AuthorMaps(n) ==
    {[c \in 1..n |-> NameA],
     [c \in 1..n |-> IF c % 2 = 1 THEN NameB ELSE NameA]}

\* DAG shapes, dates and authors varied
FamOrder ==
    {Repo(p, date, author, DefaultTree(Len(p)), DefaultNames, DefaultModes,
          DefaultBloom, 0, 1) :
        p \in ParentFns(3), date \in [1..3 -> 0..MaxDate], author \in AuthorMaps(3)}


(***************************************************************************)
(* Views of the input.                                                     *)
(***************************************************************************)
NCommits == Len(repo.parent)
NMasters == Len(repo.mname)
Commits == 1..NCommits
FileRevs == (1..NMasters) \X (1..MaxRev)
NoRev == <<0, 0>>

\* the file revisions of a commit, in the order file_iter_next delivers them
FilesOf(c) ==
    SelectSeq([m \in 1..NMasters |-> <<m, repo.tree[c][m]>>], LAMBDA f : f[2] # 0)

Range(seq) == {seq[i] : i \in 1..Len(seq)}

\* atom_bloom(name), and the Bloom filter the merge phase leaves in a commit:
\* the union of the filters of the names of its files
atom_bloom(m) == repo.mbloom[m]
CommitBloom(c) == UNION {atom_bloom(f[1]) : f \in Range(FilesOf(c))}

\* a line of the stream; c and f are not part of the text: they record which
\* commit or file revision made the program write the line
Line(t, n, ref, text, mode, c, f) ==
    [t |-> t, n |-> n, ref |-> ref, text |-> text, mode |-> mode, c |-> c, f |-> f]

\* the text of the stream
Text(out) == [i \in 1..Len(out) |-> [out[i] EXCEPT !.c = 0, !.f = NoRev]]

(***************************************************************************)
(* seqno_next                                                              *)
(***************************************************************************)
\* MAX_SERIAL_T is fixed when the program is built; the input carries it so
\* that builds with a narrow serial_t are among the runs
MAX_SERIAL_T == repo.maxserial

\* a faulty variant of seqno_next that stops counting after the first serial
seqno_next_stuck(n) == IF n = 0 THEN 1 ELSE n

\* ++seqno; the caller ends the run when the result reaches MAX_SERIAL_T
seqno_next(n) == n + 1

(***************************************************************************)
(* compute_parent_links: the other slot of every file revision of the      *)
(* commit and of its parent after the call.  cursor is the position of     *)
(* parent_iter, the index of the first parent file not yet passed.         *)
(***************************************************************************)
\* lines 371-375: goto next when a word of the name's filter and the
\* parent's filter have a bit in common
bloom_skip(cf, parent) == atom_bloom(cf[1]) \cap CommitBloom(parent) # {}

RECURSIVE LinkFrom(_, _, _, _, _, _)
LinkFrom(cfs, pfs, parent, i, st, other) ==
    IF i > Len(cfs) THEN other
    ELSE LET cf == cfs[i]
             J == {j \in st.cursor..Len(pfs) : pfs[j][1] = cf[1]}
         IN IF bloom_skip(cf, parent) \/ J = {}
            THEN LinkFrom(cfs, pfs, parent, i + 1, st, other)
            ELSE LET j == CHOOSE k \in J : \A l \in J : k <= l
                     linked == [[other EXCEPT ![cf] = pfs[j]] EXCEPT ![pfs[j]] = cf]
                 IN IF st.maxmatch - 1 = 0 THEN linked
                    ELSE LinkFrom(cfs, pfs, parent, i + 1,
                                  [cursor |-> j + 1, maxmatch |-> st.maxmatch - 1],
                                  linked)

compute_parent_links(c) ==
    LET parent == repo.parent[c]
        cfs == FilesOf(c)
        pfs == FilesOf(parent)
    IN LinkFrom(cfs, pfs, parent, 1,
                [cursor |-> 1, maxmatch |-> Min(Len(pfs), Len(cfs))],
                [f \in FileRevs |-> NoRev])

(***************************************************************************)
(* export_commit, lines 455-539: the fileop array before it is sorted.     *)
(* The program leaves rev of a 'D' entry unset and never reads it; the     *)
(* model keeps the master of the deleted file there, revision 0.           *)
(***************************************************************************)
ModifyOps(c, other) ==
    LET cfs == FilesOf(c)
        present(cc) == repo.parent[c] # NULL /\ other[cc] # NoRev
        changed(cc) == present(cc) /\ fserial[cc] # fserial[other[cc]]
        kept == SelectSeq(cfs, LAMBDA cc : ~present(cc) \/ changed(cc))
    IN [i \in 1..Len(kept) |->
          [op |-> "M", mode |-> fileop_mode(repo.mmode[kept[i][1]]),
           rev |-> kept[i], path |-> fileop_name(repo.mname[kept[i][1]])]]

DeleteOps(c, other) ==
    IF repo.parent[c] = NULL THEN <<>>
    ELSE LET gone == SelectSeq(FilesOf(repo.parent[c]), LAMBDA cc : other[cc] = NoRev)
         IN [i \in 1..Len(gone) |->
               [op |-> "D", mode |-> 0, rev |-> <<gone[i][1], 0>>,
                path |-> fileop_name(repo.mname[gone[i][1]])]]

\* the fileops of commit c in the order the two loops append them
AppendedOps(c) ==
    LET other == IF repo.parent[c] # NULL THEN compute_parent_links(c)
                 ELSE [f \in FileRevs |-> NoRev]
    IN ModifyOps(c, other) \o DeleteOps(c, other)

(***************************************************************************)
(* The operations buffer of export_commit.  cap is noperations, cur the    *)
(* offset of the cursor op from the start of the block it points into,     *)
(* live says that this block is the one operations now names (realloc can  *)
(* move the array), list holds the fileops stored inside the buffer, and   *)
(* bad records a write outside the allocated buffer or through a cursor    *)
(* into a block that realloc has given up.  OP_CHUNK is 32 in the program; *)
(* the model scales it down, the arithmetic is kept.                       *)
(***************************************************************************)
OP_CHUNK == 2

\* noperations = OP_CHUNK; op = operations = xmalloc(...)
NewBuffer == [cap |-> OP_CHUNK, cur |-> 0, live |-> TRUE, list |-> <<>>, bad |-> FALSE]

\* the stores through op (op->op, op->mode, op->path, op->rev)
Store(b, o) ==
    IF b.live /\ b.cur < b.cap THEN [b EXCEPT !.list = Append(@, o)]
    ELSE [b EXCEPT !.bad = TRUE]

\* src/export.c lines 220-225 and 269-274: the test is op > operations +
\* noperations and op is left where it was; moved says whether realloc
\* moved the array
fileop_append_old(b, o, moved) ==
    LET w == Store(b, o)
    IN IF w.cur + 1 > w.cap
       THEN [w EXCEPT !.cap = @ + OP_CHUNK, !.cur = @ + 1, !.live = @ /\ ~moved]
       ELSE [w EXCEPT !.cur = @ + 1]

\* lines 484-492 and 526-535: op++, and when op == operations + noperations
\* the array grows by OP_CHUNK and op = operations + noperations - OP_CHUNK
fileop_append(b, o, moved) ==
    LET w == Store(b, o)
    IN IF w.cur + 1 = w.cap
       THEN [w EXCEPT !.cap = @ + OP_CHUNK, !.cur = (w.cap + OP_CHUNK) - OP_CHUNK,
                      !.live = TRUE]
       ELSE [w EXCEPT !.cur = @ + 1]

RECURSIVE BuildFrom(_, _, _, _)
BuildFrom(ops, i, b, moved) ==
    IF i > Len(ops) THEN b
    ELSE BuildFrom(ops, i + 1, fileop_append(b, ops[i], moved), moved)

RECURSIVE BuildOldFrom(_, _, _, _)
BuildOldFrom(ops, i, b, moved) ==
    IF i > Len(ops) THEN b
    ELSE BuildOldFrom(ops, i + 1, fileop_append_old(b, ops[i], moved), moved)

\* operations .. op after the two loops; the cursor is re-based after every
\* realloc, so that whether the array moved makes no difference
Operations(c) == BuildFrom(AppendedOps(c), 1, NewBuffer, TRUE).list

\* src/export.c lines 188-278: the fileops the older export_commit appends,
\* found by comparing the names of the files of the commit and its parent
AppendedOpsOld(c) ==
    LET P == repo.parent[c]
        inparent(cc) == P # NULL /\ \E pf \in Range(FilesOf(P)) : pf[1] = cc[1]
        changed(cc) == inparent(cc) /\ \E pf \in Range(FilesOf(P)) : pf[1] = cc[1] /\ pf # cc
        inchild(pf) == \E cc \in Range(FilesOf(c)) : cc[1] = pf[1]
        kept == SelectSeq(FilesOf(c), LAMBDA cc : ~inparent(cc) \/ changed(cc))
        gone == IF P = NULL THEN <<>> ELSE SelectSeq(FilesOf(P), LAMBDA pf : ~inchild(pf))
    IN [i \in 1..Len(kept) |->
          [op |-> "M", mode |-> fileop_mode(repo.mmode[kept[i][1]]),
           rev |-> kept[i], path |-> repo.mname[kept[i][1]]]]
       \o [i \in 1..Len(gone) |->
             [op |-> "D", mode |-> 0, rev |-> <<gone[i][1], 0>>,
              path |-> repo.mname[gone[i][1]]]]


(***************************************************************************)
(* export_commit, lines 541-582: the blobs this commit is the first to     *)
(* reference.  st carries mark, markmap, femitted, blobs and the lines     *)
(* written so far.                                                         *)
(***************************************************************************)
BlobLines(m, entry) ==
    <<Line("blob", 0, "", <<>>, <<>>, 0, entry.f),
      Line("mark", m, "", <<>>, <<>>, 0, entry.f),
      Line("data", 0, IF entry.pre THEN "CVS_IGNORES" ELSE "", <<>>, <<>>, 0, entry.f)>>

\* a faulty variant of blob_unemitted that forgets the emitted flag
blob_unemitted_always(op2, emitted) == op2.op = "M"

\* line 543
blob_unemitted(op2, emitted) == op2.op = "M" /\ ~emitted[op2.rev]

\* a faulty variant of next_mark that stops counting after the first mark
next_mark_stuck(m) == IF m = 0 THEN 1 ELSE m

\* ++mark
next_mark(m) == m + 1

\* a faulty variant of unlink_blob that leaves the blob file in place
unlink_blob_kept(store, found) == store

\* line 572: (void) unlink(fn)
unlink_blob(store, found) == store \ found

RECURSIVE BlobLoop(_, _, _, _)
BlobLoop(ops, i, report, st) ==
    IF i > Len(ops) THEN st
    ELSE LET op2 == ops[i] IN
         IF ~blob_unemitted(op2, st.femitted) THEN BlobLoop(ops, i + 1, report, st)
         ELSE LET canon == reportmode = "canonical"
                  m == IF canon THEN next_mark(st.mark) ELSE st.mark
                  mm == IF canon THEN [st.markmap EXCEPT ![fserial[op2.rev]] = m]
                        ELSE st.markmap
                  found == {e \in st.blobs : e.serial = fserial[op2.rev]}
              IN IF report /\ canon /\ found # {}
                 THEN BlobLoop(ops, i + 1, report,
                        [mark |-> m, markmap |-> mm,
                         femitted |-> [st.femitted EXCEPT ![op2.rev] = TRUE],
                         blobs |-> unlink_blob(st.blobs, found),
                         out |-> st.out \o BlobLines(m, CHOOSE e \in found : TRUE)])
                 ELSE BlobLoop(ops, i + 1, report,
                        [st EXCEPT !.mark = m, !.markmap = mm])

(***************************************************************************)
(* export_commit, lines 598-666: the commit record.  sorted is the fileop  *)
(* array after qsort, mm the mark map after the commit's mark is bound.    *)
(***************************************************************************)
FileopLine(op2, mm, c) ==
    IF op2.op = "M"
    THEN Line("M", mm[fserial[op2.rev]], "", op2.path, ModeField(op2.mode), c, op2.rev)
    ELSE Line("D", 0, "", op2.path, <<>>, c, op2.rev)

CommitLines(c, branch, sorted, mm, here) ==
       <<Line("commit", 0, branch, <<>>, <<>>, c, NoRev),
         Line("mark", here, "", <<>>, <<>>, c, NoRev),
         Line("committer", display_date(repo.date[c], here, opts.force_dates), "",
              repo.author[c], <<>>, c, NoRev),
         Line("log", 0, "", repo.log[c], <<>>, c, NoRev)>>
    \o (IF repo.parent[c] # NULL
        THEN <<Line("from", mm[cserial[repo.parent[c]]], "", <<>>, <<>>, c, NoRev)>>
        ELSE <<>>)
    \o [i \in 1..Len(sorted) |-> FileopLine(sorted[i], mm, c)]
    \o (IF need_ignores /\ \A i \in 1..Len(sorted) : sorted[i].path # DotGitignore
        THEN <<Line("Minline", 0, "CVS_IGNORES", DotGitignore, <<1, 0, 0, 6, 4, 4>>, c, NoRev)>>
        ELSE <<>>)

\* a faulty variant of TagLines that does not look at the commit of the tag
TagLines_any(c, mm, serial) ==
    LET mine == SelectSeq(repo.tags, LAMBDA t :
                    display_date(repo.date[c], mm[serial], opts.force_dates) > opts.fromtime)
    IN [i \in 1..(2 * Len(mine)) |->
          IF i % 2 = 1 THEN Line("tagreset", 0, mine[(i + 1) \div 2].name, <<>>, <<>>, 0, NoRev)
          ELSE Line("from", mm[serial], "", <<>>, <<>>, 0, NoRev)]

\* lines 933-935 and 994-996: the reset records of the tags of commit c
TagLines(c, mm, serial) ==
    LET mine == SelectSeq(repo.tags, LAMBDA t :
                    t.commit = c
                    /\ display_date(repo.date[c], mm[serial], opts.force_dates) > opts.fromtime)
    IN [i \in 1..(2 * Len(mine)) |->
          IF i % 2 = 1 THEN Line("tagreset", 0, mine[(i + 1) \div 2].name, <<>>, <<>>, 0, NoRev)
          ELSE Line("from", mm[serial], "", <<>>, <<>>, 0, NoRev)]

(***************************************************************************)
(* export_commit(commit, branch, report, opts), followed by the tag loop   *)
(* of its caller; before are the lines the caller wrote ahead of the call. *)
(***************************************************************************)
export_commit(c, branch, report, before) ==
    LET ops == Operations(c)
        b == BlobLoop(ops, 1, report,
                      [mark |-> mark, markmap |-> markmap, femitted |-> femitted,
                       blobs |-> blobs, out |-> <<>>])
        serial == seqno + 1
        here == next_mark(b.mark)
        mm == [b.markmap EXCEPT ![serial] = here]
    IN \E sorted \in qsort_operations(ops) :
         /\ seqno' = serial
         /\ mark' = here
         /\ markmap' = mm
         /\ cserial' = [cserial EXCEPT ![c] = serial]
         /\ femitted' = b.femitted
         /\ blobs' = b.blobs
         /\ need_ignores' = (need_ignores /\ ~report)
         /\ stream' = stream \o before \o b.out
                        \o (IF report THEN CommitLines(c, branch, sorted, mm, here) ELSE <<>>)
                        \o TagLines(c, mm, serial)


(***************************************************************************)
(* compare_commit and sort_by_date.  The dates of the model are small, so  *)
(* the narrowing of the time difference to int is exact.                   *)
(***************************************************************************)
\* a faulty variant of compare_commit with the date difference reversed
compare_commit_newest_first(ac, bc) ==
    IF repo.date[bc] - repo.date[ac] # 0 THEN repo.date[bc] - repo.date[ac]
    ELSE IF bc = repo.parent[ac]
          \/ (repo.parent[ac] # NULL /\ bc = repo.parent[repo.parent[ac]]) THEN 1
    ELSE IF ac = repo.parent[bc]
          \/ (repo.parent[bc] # NULL /\ ac = repo.parent[repo.parent[bc]]) THEN -1
    ELSE IF strcmp(repo.author[ac], repo.author[bc]) # 0
         THEN strcmp(repo.author[ac], repo.author[bc])
    ELSE strcmp(repo.log[ac], repo.log[bc])

compare_commit(ac, bc) ==
    IF repo.date[ac] - repo.date[bc] # 0 THEN repo.date[ac] - repo.date[bc]
    ELSE IF bc = repo.parent[ac]
          \/ (repo.parent[ac] # NULL /\ bc = repo.parent[repo.parent[ac]]) THEN 1
    ELSE IF ac = repo.parent[bc]
          \/ (repo.parent[bc] # NULL /\ ac = repo.parent[repo.parent[bc]]) THEN -1
    ELSE IF strcmp(repo.author[ac], repo.author[bc]) # 0
         THEN strcmp(repo.author[ac], repo.author[bc])
    ELSE strcmp(repo.log[ac], repo.log[bc])

RECURSIVE SortByDateFrom(_, _)
SortByDateFrom(ac, bc) ==
    IF ac = bc THEN 0
    ELSE IF compare_commit(ac, bc) # 0 THEN compare_commit(ac, bc)
    ELSE IF repo.parent[ac] # NULL /\ repo.parent[bc] # NULL
         THEN SortByDateFrom(repo.parent[ac], repo.parent[bc])
    ELSE 0

\* sort_by_date(ap, bp) on two commit_seq entries
sort_by_date(ap, bp) == SortByDateFrom(ap.commit, bp.commit)

\* lines 968-971: qsort(history, ..., sort_by_date)
qsort_history(arr) ==
    {Arrange(arr, p) :
        p \in {q \in Perms(Len(arr)) :
                 \A i \in 1..(Len(arr) - 1) : sort_by_date(arr[q[i]], arr[q[i + 1]]) <= 0}}

(***************************************************************************)
(* export_ncommit and canonicalize.                                        *)
(***************************************************************************)
\* a faulty variant of ChainFrom that walks past a commit with the tail flag
RECURSIVE ChainFrom_to_root(_)
ChainFrom_to_root(c) ==
    IF c = NULL THEN <<>> ELSE <<c>> \o ChainFrom_to_root(repo.parent[c])

\* for (c = h->commit; c; c = (c->tail ? NULL : c->parent)): head first
RECURSIVE ChainFrom(_)
ChainFrom(c) ==
    IF c = NULL THEN <<>>
    ELSE <<c>> \o (IF repo.ctail[c] THEN <<>> ELSE ChainFrom(repo.parent[c]))

\* a faulty variant of Reverse that keeps the head first
Reverse_head_first(seq) == seq

Reverse(seq) == [i \in 1..Len(seq) |-> seq[Len(seq) + 1 - i]]

RECURSIVE NcommitFrom(_)
NcommitFrom(h) ==
    IF h > Len(repo.heads) THEN 0
    ELSE (IF repo.heads[h].tail THEN 0 ELSE Len(ChainFrom(repo.heads[h].commit)))
         + NcommitFrom(h + 1)

export_ncommit == NcommitFrom(1)

CommitSeq(c, h) == [commit |-> c, head |-> h, realized |-> FALSE]

RECURSIVE CanonicalizeFrom(_)
CanonicalizeFrom(h) ==
    IF h > Len(repo.heads) THEN <<>>
    ELSE (IF repo.heads[h].tail THEN <<>>
          ELSE LET span == Reverse(ChainFrom(repo.heads[h].commit))
               IN [i \in 1..Len(span) |-> CommitSeq(span[i], h)])
         \o CanonicalizeFrom(h + 1)

canonicalize == CanonicalizeFrom(1)

\* a faulty variant of Sortable that never finds a younger parent
Sortable_always(hist) == TRUE

\* lines 960-967
Sortable(hist) ==
    \A i \in 1..Len(hist) :
        ~(repo.parent[hist[i].commit] # NULL
          /\ repo.date[repo.parent[hist[i].commit]] > repo.date[hist[i].commit])


(***************************************************************************)
(* The inputs of a run.                                                    *)
(***************************************************************************)
\* the trees of a parent and its child varied
FamTree ==
    {Repo(<<0, 1>>, <<0, 2>>, <<NameA, NameB>>, tree, DefaultNames, DefaultModes,
          v[1], v[2], 1) :
        tree \in [1..2 -> [1..2 -> 0..MaxRev]],
        v \in {<<DefaultBloom, 0>>, <<DefaultBloom, 1>>, <<<<{1}, {1, 2}>>, 0>>}}

MasterNames ==
    {NameA, NameB, <<"a", "/", "b">>, <<"a", "/", "b", "/", "c">>,
     DotCvsignore, DotGitignore,
     <<"x">> \o DotCvsignore, <<"a", "/">> \o DotCvsignore,
     <<"x", ".", "c">>}

MasterModes == {420, 493, 457, 428, 421, 292, 365}

\* the names and the modes of the masters varied: the parent has both files,
\* the child has a new revision of the first and has lost the second
FamNames ==
    {Repo(<<0, 1>>, <<0, 2>>, <<NameA, NameA>>, <<<<1, 1>>, <<2, 0>>>>,
          names, DefaultModes, DefaultBloom, 0, 1) :
        names \in {q \in MasterNames \X MasterNames : q[1] # q[2]}}
    \cup
    {Repo(<<0, 1>>, <<0, 2>>, <<NameA, NameA>>, <<<<1, 1>>, <<2, 0>>>>,
          DefaultNames, <<m1, m2>>, DefaultBloom, 0, 1) :
        m1 \in MasterModes, m2 \in MasterModes}

\* fromtime values: none; one second after the RCS epoch offset, so that
\* the dates 0, 1 and 2 lie before, at and after it; two values in the
\* range of the forced dates
Options(modes, forces, fromtimes) ==
    {[reportmode |-> m, force_dates |-> f, fromtime |-> t] :
        m \in modes, f \in forces, t \in fromtimes}

\* fromtime values: none; one second after the RCS epoch offset, so that
\* the dates 0, 1 and 2 lie before, at and after it; with forced dates, two
\* values in their range
OrderOptions ==
    Options({"fast"}, BOOLEAN, {0})
    \cup Options({"canonical"}, {FALSE}, {0, RCS_EPOCH + 1})
    \cup Options({"canonical"}, {TRUE}, {0, FORCE_BASE + 2, FORCE_BASE + 8})

TreeOptions ==
    Options({"fast", "canonical"}, {FALSE}, {0})
    \cup Options({"canonical"}, {FALSE}, {RCS_EPOCH + 1})

FamAdaptive ==
    {Repo(<<0, 1>>, <<0, 2>>, <<NameA, NameB>>, DefaultTree(2), DefaultNames,
          DefaultModes, DefaultBloom, 0, size) :
        size \in {SMALL_REPOSITORY - 1, SMALL_REPOSITORY, SMALL_REPOSITORY + 1}}

\* one branch head, master, that has no commit
EmptyRepo ==
    [parent |-> <<>>, date |-> <<>>, author |-> <<>>, log |-> <<>>, ctail |-> <<>>,
     tree |-> <<>>, mname |-> <<>>, mmode |-> <<>>, mbloom |-> <<>>,
     heads |-> <<[ref_name |-> "master", commit |-> NULL, tail |-> FALSE]>>,
     tags |-> <<>>, textsize |-> 0, maxserial |-> SERIAL_MAX]

\* three branches of equal date: the roots 1, 2 and 4 by author b, and the
\* child 3 of commit 2 by author a
FamSort ==
    {Repo(<<0, 0, 2, 0>>, <<0, 0, 0, 0>>, <<NameB, NameB, NameA, NameB>>,
          DefaultTree(4), DefaultNames, DefaultModes, DefaultBloom, 0, 1)}

\* a parent and its child over two masters of MaxRev revisions each, and
\* builds whose serial_t is too narrow for the blobs, too narrow for the
\* commits, and just wide enough
FamSerial ==
    {[Repo(<<0, 1>>, <<0, 2>>, <<NameA, NameB>>, DefaultTree(2), DefaultNames,
           DefaultModes, DefaultBloom, 0, 1) EXCEPT !.maxserial = w] :
        w \in {2 * MaxRev, 2 * MaxRev + 2, 2 * MaxRev + 3}}

\* a parent and its child over three masters, with two, three and six
\* fileops in the record of the child or the parent: OP_CHUNK, OP_CHUNK + 1
\* and more than 2 * OP_CHUNK
NameC == <<"c">>
FamGrow ==
    {Repo(<<0, 1>>, <<0, 2>>, <<NameA, NameB>>, tree, <<NameA, NameB, NameC>>,
          <<420, 493, 420>>, <<{1}, {2}, {3}>>, 0, 1) :
        tree \in {<<<<1, 1, 1>>, <<2, 2, 2>>>>,
                  <<<<1, 1, 0>>, <<2, 0, 0>>>>,
                  <<<<1, 1, 0>>, <<1, 1, 1>>>>}}

Inputs ==
    (FamOrder \X OrderOptions)
    \cup (FamGrow \X Options({"fast", "canonical"}, {FALSE}, {0}))
    \cup (FamSerial \X Options({"fast", "canonical"}, {FALSE}, {0}))
    \cup (FamSort \X Options({"fast", "canonical"}, {FALSE}, {0}))
    \cup ((FamTree \cup FamNames) \X TreeOptions)
    \cup (FamAdaptive \X Options({"adaptive"}, BOOLEAN, {0, RCS_EPOCH + 1}))
    \cup ({EmptyRepo} \X Options({"fast", "canonical", "adaptive"}, {FALSE}, {0}))

Fresh ==
    /\ reportmode = opts.reportmode
    /\ pc = "start"
    /\ seqno = 0
    /\ mark = 0
    /\ markmap = <<>>
    /\ blobdir = FALSE
    /\ need_ignores = TRUE
    /\ fserial = [f \in FileRevs |-> 0]
    /\ femitted = [f \in FileRevs |-> FALSE]
    /\ cserial = [c \in Commits |-> 0]
    /\ blobs = {}
    /\ gen = <<>>
    /\ history = <<>>
    /\ hp = 0
    /\ hd = 1
    /\ sortable = TRUE
    /\ announced = 0
    /\ stream = <<>>

Init ==
    /\ \E inp \in Inputs : repo = inp[1] /\ opts = inp[2]
    /\ run = 1
    /\ prev = <<>>
    /\ Fresh


(***************************************************************************)
(* export_commits, lines 854-878: resolve the mode, create the temporary   *)
(* directory, count the commits and allocate the mark map.                 *)
(***************************************************************************)
\* a faulty variant of resolve_mode that takes a repository of exactly the
\* threshold size for a large one
resolve_mode_below(fromtime, asked, textsize) ==
    IF fromtime > 0 THEN "canonical"
    ELSE IF asked = "adaptive"
    THEN (IF textsize < SMALL_REPOSITORY THEN "canonical" ELSE "fast")
    ELSE asked

\* lines 854-861
resolve_mode(fromtime, asked, textsize) ==
    IF fromtime > 0 THEN "canonical"
    ELSE IF asked = "adaptive"
    THEN (IF textsize <= SMALL_REPOSITORY THEN "canonical" ELSE "fast")
    ELSE asked

\* the generators deliver every revision of every master, master by master
Generated ==
    [i \in 1..(NMasters * MaxRev) |-> <<((i - 1) \div MaxRev) + 1, ((i - 1) % MaxRev) + 1>>]

Start ==
    /\ pc = "start"
    /\ reportmode' = resolve_mode(opts.fromtime, opts.reportmode, repo.textsize)
    /\ blobdir' = (reportmode' = "canonical")
    /\ seqno' = (IF reportmode' = "canonical" THEN 0 ELSE seqno)
    /\ mark' = (IF reportmode' = "canonical" THEN 0 ELSE mark)
    /\ markmap' = [s \in 0..(NMasters * MaxRev + export_ncommit) |-> 0]
    /\ gen' = Generated
    /\ pc' = "generate"
    /\ UNCHANGED <<repo, opts, need_ignores, fserial, femitted, cserial, blobs,
                   history, hp, hd, sortable, announced, stream, run, prev>>

(***************************************************************************)
(* export_blob, called back once for every file revision.                  *)
(***************************************************************************)
ExportBlob ==
    /\ pc = "generate"
    /\ gen # <<>>
    /\ LET f == Head(gen)
           serial == seqno_next(seqno)
           pre == repo.mname[f[1]] = DotCvsignore
           entry == [serial |-> serial, f |-> f, pre |-> pre]
       IN /\ seqno' = serial
          /\ IF serial >= MAX_SERIAL_T
             THEN /\ pc' = "fatal"
                  /\ UNCHANGED <<fserial, mark, markmap, stream, blobs>>
             ELSE /\ pc' = pc
                  /\ fserial' = [fserial EXCEPT ![f] = serial]
                  /\ IF reportmode = "fast"
                     THEN /\ mark' = next_mark(mark)
                          /\ markmap' = [markmap EXCEPT ![serial] = mark']
                          /\ stream' = stream \o BlobLines(mark', entry)
                          /\ blobs' = blobs
                     ELSE /\ blobs' = blobs \cup {entry}
                          /\ UNCHANGED <<mark, markmap, stream>>
    /\ gen' = Tail(gen)
    /\ UNCHANGED <<repo, opts, reportmode, blobdir, need_ignores, femitted, cserial,
                   history, hp, hd, sortable, announced, run, prev>>

(***************************************************************************)
(* export_commits, canonical branch, lines 947-971: canonicalize, the      *)
(* topological check and the sort.                                         *)
(***************************************************************************)
Plan ==
    /\ pc = "generate"
    /\ gen = <<>>
    /\ reportmode = "canonical"
    /\ sortable' = Sortable(canonicalize)
    /\ announced' = IF sortable' THEN announced ELSE announced + 1
    /\ IF sortable'
       THEN history' \in qsort_history(canonicalize)
       ELSE history' = canonicalize
    /\ hp' = 1
    /\ pc' = "emit"
    /\ UNCHANGED <<repo, opts, reportmode, seqno, mark, markmap, blobdir,
                   need_ignores, fserial, femitted, cserial, blobs, gen, hd,
                   stream, run, prev>>


(***************************************************************************)
(* export_commits, canonical branch, lines 976-997: one turn of the loop   *)
(* over history.                                                           *)
(***************************************************************************)
\* line 979
suppressed(date, nblobs) ==
    opts.fromtime >= display_date(date, mark + 1, opts.force_dates)

\* line 983
parent_before_cutoff(pdate, pmark) ==
    display_date(pdate, pmark, opts.force_dates) < opts.fromtime

\* the marks the blob loop of export_commit will allocate for commit c
NewBlobs(c) ==
    Cardinality({i \in 1..Len(Operations(c)) :
                    blob_unemitted(Operations(c)[i], femitted)})

EmitCanonical ==
    /\ pc = "emit"
    /\ hp <= Len(history)
    /\ LET c == history[hp].commit
           head == history[hp].head
           parent == repo.parent[c]
           report == ~(opts.fromtime > 0 /\ suppressed(repo.date[c], NewBlobs(c)))
           first == opts.fromtime > 0 /\ report /\ ~history[hp].realized
           anchor == first /\ parent # NULL
                     /\ parent_before_cutoff(repo.date[parent], markmap[cserial[parent]])
       IN /\ history' = [i \in 1..Len(history) |->
                           IF first /\ i >= hp /\ history[i].head = head
                           THEN [history[i] EXCEPT !.realized = TRUE]
                           ELSE history[i]]
          /\ export_commit(c, repo.heads[head].ref_name, report,
                           IF anchor
                           THEN <<Line("anchor", 0, repo.heads[head].ref_name, <<>>, <<>>, c, NoRev)>>
                           ELSE <<>>)
    /\ hp' = hp + 1
    /\ UNCHANGED <<repo, opts, reportmode, pc, blobdir, fserial, gen, hd,
                   sortable, announced, run, prev>>

(***************************************************************************)
(* export_commits, fast branch, lines 910-940.  FastHead takes the next    *)
(* branch head and lays its chain out in history, head first; FastCommit   *)
(* is one turn of the loop that walks it backwards.                        *)
(***************************************************************************)
FastHead ==
    /\ pc = "generate"
    /\ gen = <<>>
    /\ reportmode = "fast"
    /\ hp = 0
    /\ hd <= Len(repo.heads)
    /\ IF repo.heads[hd].tail
       THEN UNCHANGED <<history, hp>>
       ELSE LET chain == ChainFrom(repo.heads[hd].commit)
            IN /\ history' = [i \in 1..Len(chain) |-> CommitSeq(chain[i], hd)]
               /\ hp' = Len(chain)
    /\ hd' = hd + 1
    /\ UNCHANGED <<repo, opts, reportmode, pc, seqno, mark, markmap, blobdir,
                   need_ignores, fserial, femitted, cserial, blobs, gen,
                   sortable, announced, stream, run, prev>>

FastCommit ==
    /\ pc = "generate"
    /\ gen = <<>>
    /\ reportmode = "fast"
    /\ hp > 0
    /\ export_commit(history[hp].commit, repo.heads[history[hp].head].ref_name, TRUE, <<>>)
    /\ hp' = hp - 1
    /\ UNCHANGED <<repo, opts, reportmode, pc, blobdir, fserial, gen, history, hd,
                   sortable, announced, run, prev>>

(***************************************************************************)
(* export_commits, lines 1002-1015: the branch resets, "done", and the     *)
(* removal of the temporary directory.                                     *)
(***************************************************************************)
\* gdate and gserial stand for what h->commit->date and h->commit->serial
\* yield when h->commit is NULL
ResetLines(gdate, gserial) ==
    LET hdate(h) == IF h.commit = NULL THEN gdate ELSE repo.date[h.commit]
        hserial(h) == IF h.commit = NULL THEN gserial ELSE cserial[h.commit]
        shown == SelectSeq(repo.heads, LAMBDA h :
                     display_date(hdate(h), markmap[hserial(h)], opts.force_dates)
                        > opts.fromtime)
    IN [i \in 1..(2 * Len(shown)) |->
          IF i % 2 = 1 THEN Line("reset", 0, shown[(i + 1) \div 2].ref_name, <<>>, <<>>, 0, NoRev)
          ELSE Line("from", markmap[hserial(shown[i \div 2])], "", <<>>, <<>>, 0, NoRev)]

\* a faulty variant of nftw_remove without FTW_DEPTH: the directory is
\* visited before its entries, remove() fails on it unless it is empty, and
\* the walk stops at the first failure
nftw_remove_preorder(root, files) ==
    IF files = {} THEN [root |-> FALSE, files |-> {}]
    ELSE [root |-> root, files |-> files]

\* line 1015: nftw(blobdir, unlink_cb, 64, FTW_DEPTH | FTW_PHYS) visits the
\* entries of the directory before the directory and removes each
nftw_remove(root, files) == [root |-> FALSE, files |-> {}]

Finish ==
    /\ \/ pc = "emit" /\ hp > Len(history)
       \/ pc = "generate" /\ gen = <<>> /\ reportmode = "fast" /\ hp = 0
          /\ hd > Len(repo.heads)
    /\ IF \E i \in 1..Len(repo.heads) : repo.heads[i].commit = NULL
       THEN \* line 1003 reads through the null pointer h->commit: the process
            \* is killed, or the reads yield some date and some serial
            \/ /\ pc' = "crashed"
               /\ UNCHANGED <<stream, blobs, blobdir>>
            \/ \E gdate \in 0..MaxDate, gserial \in DOMAIN markmap :
                  /\ stream' = stream \o ResetLines(gdate, gserial)
                                   \o <<Line("done", 0, "", <<>>, <<>>, 0, NoRev)>>
                  /\ blobs' = nftw_remove(blobdir, blobs).files
                  /\ blobdir' = nftw_remove(blobdir, blobs).root
                  /\ pc' = "done"
       ELSE /\ stream' = stream \o ResetLines(0, 0)
                             \o <<Line("done", 0, "", <<>>, <<>>, 0, NoRev)>>
            /\ blobs' = nftw_remove(blobdir, blobs).files
            /\ blobdir' = nftw_remove(blobdir, blobs).root
            /\ pc' = "done"
    /\ UNCHANGED <<repo, opts, reportmode, seqno, mark, markmap, need_ignores,
                   fserial, femitted, cserial, gen, history, hp, hd, sortable,
                   announced, run, prev>>

(***************************************************************************)
(* export_authors, the second entry point: the author of every commit of   *)
(* canonicalize's array, each printed once.  Authors are interned, so the  *)
(* comparison of pointers is the comparison of the strings.                *)
(***************************************************************************)
\* a faulty variant of author_seen that looks at the last author only
author_seen_last(authors, a) == authors # <<>> /\ authors[Len(authors)] = a

\* lines 823-826
author_seen(authors, a) == \E i \in 1..Len(authors) : authors[i] = a

\* lines 822-833
RECURSIVE AuthorsFrom(_, _, _)
AuthorsFrom(hist, i, authors) ==
    IF i > Len(hist) THEN authors
    ELSE AuthorsFrom(hist, i + 1,
                     IF author_seen(authors, repo.author[hist[i].commit]) THEN authors
                     ELSE Append(authors, repo.author[hist[i].commit]))

export_authors == AuthorsFrom(canonicalize, 1, <<>>)

ExportAuthors ==
    /\ pc = "start"
    /\ stream' = [i \in 1..Len(export_authors) |->
                    Line("author", 0, "", export_authors[i], <<>>, 0, NoRev)]
    /\ pc' = "authors"
    /\ UNCHANGED <<repo, opts, reportmode, seqno, mark, markmap, blobdir,
                   need_ignores, fserial, femitted, cserial, blobs, gen, history,
                   hp, hd, sortable, announced, run, prev>>

(***************************************************************************)
(* A second run of the program over the same input: a new process, its     *)
(* statics and the objects of the DAG as they were at the start.           *)
(***************************************************************************)
Rerun ==
    /\ pc = "done"
    /\ run = 1
    /\ UNCHANGED <<repo, opts>>
    /\ run' = 2
    /\ prev' = stream
    /\ reportmode' = opts.reportmode
    /\ pc' = "start"
    /\ seqno' = 0
    /\ mark' = 0
    /\ markmap' = <<>>
    /\ blobdir' = FALSE
    /\ need_ignores' = TRUE
    /\ fserial' = [f \in FileRevs |-> 0]
    /\ femitted' = [f \in FileRevs |-> FALSE]
    /\ cserial' = [c \in Commits |-> 0]
    /\ blobs' = {}
    /\ gen' = <<>>
    /\ history' = <<>>
    /\ hp' = 0
    /\ hd' = 1
    /\ sortable' = TRUE
    /\ announced' = 0
    /\ stream' = <<>>

Next ==
    \/ Start \/ ExportBlob \/ Plan \/ EmitCanonical \/ FastHead \/ FastCommit \/ Finish
    \/ ExportAuthors

Spec == Init /\ [][Next]_vars

\* the inputs of the two-run specification: the commit graphs of FamOrder,
\* exported whole (fromtime = 0) in fast and in canonical mode
InputsTwice == FamOrder \X Options({"fast", "canonical"}, {FALSE}, {0})

InitTwice ==
    /\ \E inp \in InputsTwice : repo = inp[1] /\ opts = inp[2]
    /\ run = 1
    /\ prev = <<>>
    /\ Fresh

NextTwice == Next \/ Rerun

SpecTwice == InitTwice /\ [][NextTwice]_vars

(***************************************************************************)
(* The same input exported in fast mode and then, by a new process, in     *)
(* canonical mode.                                                         *)
(***************************************************************************)
SingleBranch(r) == Len(r.heads) = 1

TopoDates(r) ==
    \A c \in 1..Len(r.parent) : r.parent[c] # 0 => r.date[r.parent[c]] <= r.date[c]

\* single-branch repositories whose dates agree with the topology, asked
\* for in fast mode, whole
InputsModes ==
    {r \in FamOrder \cup FamTree : SingleBranch(r) /\ TopoDates(r)}
    \X Options({"fast"}, BOOLEAN, {0})

InitModes ==
    /\ \E inp \in InputsModes : repo = inp[1] /\ opts = inp[2]
    /\ run = 1
    /\ prev = <<>>
    /\ Fresh

RerunCanonical ==
    /\ pc = "done"
    /\ run = 1
    /\ opts.reportmode = "fast"
    /\ UNCHANGED repo
    /\ opts' = [opts EXCEPT !.reportmode = "canonical"]
    /\ run' = 2
    /\ prev' = stream
    /\ reportmode' = "canonical"
    /\ pc' = "start"
    /\ seqno' = 0
    /\ mark' = 0
    /\ markmap' = <<>>
    /\ blobdir' = FALSE
    /\ need_ignores' = TRUE
    /\ fserial' = [f \in FileRevs |-> 0]
    /\ femitted' = [f \in FileRevs |-> FALSE]
    /\ cserial' = [c \in Commits |-> 0]
    /\ blobs' = {}
    /\ gen' = <<>>
    /\ history' = <<>>
    /\ hp' = 0
    /\ hd' = 1
    /\ sortable' = TRUE
    /\ announced' = 0
    /\ stream' = <<>>

NextModes == Next \/ RerunCanonical

SpecModes == InitModes /\ [][NextModes]_vars


(***************************************************************************)
(* Properties of the stream.                                               *)
(***************************************************************************)
Done == pc = "done"

\* the positions of the lines of kind t
Pos(t) == {i \in 1..Len(stream) : stream[i].t = t}

\* the commits whose record has been written
Emitted == {stream[i].c : i \in Pos("commit")}

\* line i refers to a mark
RefersToMark(i) == stream[i].t \in {"from", "M"}

\* C1: every mark reference written to the stream ('from :N' of a commit,
\* of a tag reset or of a branch reset, and 'M <mode> :N <path>') is preceded
\* in the stream by a 'mark :N' line with the same N.  Stated of the stream
\* of a finished run.
C1_MarkDefinedness ==
    Done => \A i \in 1..Len(stream) :
               RefersToMark(i) =>
                  \E j \in 1..(i - 1) : stream[j].t = "mark" /\ stream[j].n = stream[i].n

\* C2: marks start at 1 and the values of successive 'mark :N' lines are
\* strictly increasing, blob records and commit records together; no mark
\* written is beyond the marks allocated, and in a run that suppresses
\* nothing the first 'mark' line is 'mark :1'.
C2_MarksIncrease ==
    /\ \A i \in Pos("mark") : 1 <= stream[i].n /\ stream[i].n <= mark
    /\ \A i, j \in Pos("mark") : i < j => stream[i].n < stream[j].n
    /\ \A i \in Pos("mark") :
          (opts.fromtime = 0 /\ \A j \in Pos("mark") : i <= j) => stream[i].n = 1

\* a finished run that wrote the marks of at least two blobs and two commits
C2_Witness ==
    /\ Done
    /\ Cardinality({i \in Pos("mark") : stream[i].c # 0}) >= 2
    /\ Cardinality({i \in Pos("mark") : stream[i].c = 0}) >= 2

\* C3: for each file revision at most one blob record is written, and every
\* 'M' line for it carries the mark written in that blob record, which
\* comes before the line.
C3_BlobOnce ==
    /\ \A i, j \in Pos("blob") : stream[i].f = stream[j].f => i = j
    /\ \A i \in Pos("M") :
          \E j \in 1..(i - 1) :
             /\ stream[j].t = "mark"
             /\ stream[j].c = 0
             /\ stream[j].f = stream[i].f
             /\ stream[j].n = stream[i].n

\* a finished run in which two commits carry a Modify for one file revision
C3_Witness ==
    /\ Done
    /\ \E i, j \in Pos("M") : stream[i].f = stream[j].f /\ stream[i].c # stream[j].c

\* line i and line i + 1 are fileops of one commit record
FileopPair(i) ==
    /\ i + 1 <= Len(stream)
    /\ stream[i].t \in {"M", "D"}
    /\ stream[i + 1].t \in {"M", "D"}
    /\ stream[i].c = stream[i + 1].c

\* C4: within every commit record the M and D lines are in strictly
\* ascending order of the path comparator.
C4_FileopOrder ==
    Done => \A i \in 1..Len(stream) :
               FileopPair(i) =>
                  path_deep_compare(stream[i].text, stream[i + 1].text) < 0


\* the mode and the name of the master of the file of fileop line i
SourceMode(i) == repo.mmode[stream[i].f[1]]
SourceName(i) == repo.mname[stream[i].f[1]]

Mode755 == <<1, 0, 0, 7, 5, 5>>
Mode644 == <<1, 0, 0, 6, 4, 4>>

OwnerExec(mode) == (mode \div 64) % 2 = 1
AnyExec(mode) == OwnerExec(mode) \/ (mode \div 8) % 2 = 1 \/ mode % 2 = 1

\* C5 as claimed: the mode written in an 'M' line is 100755 when the source
\* mode has any execute bit (owner, group or other) and 100644 otherwise.
C5_ModeAnyExecuteBit ==
    \A i \in Pos("M") :
       stream[i].mode = IF AnyExec(SourceMode(i)) THEN Mode755 ELSE Mode644

\* C5 as amended: the mode written in an 'M' line is 100755 when the source
\* mode has the owner execute bit (0100) and 100644 otherwise.
C5_ModeOwnerExecuteBit ==
    \A i \in Pos("M") :
       stream[i].mode = IF OwnerExec(SourceMode(i)) THEN Mode755 ELSE Mode644

\* a finished run that wrote a file of source mode 0711 as 100755 and a file
\* of source mode 0644 as 100644
C5_Witness ==
    /\ Done
    /\ \E i \in Pos("M") : SourceMode(i) = 457 /\ stream[i].mode = Mode755
    /\ \E i \in Pos("M") : SourceMode(i) = 420 /\ stream[i].mode = Mode644

\* the last path segment of name is ".cvsignore"
BasenameIsCvsignore(name) ==
    /\ Len(name) >= 10
    /\ Suffix(name, 10) = DotCvsignore
    /\ (Len(name) = 10 \/ name[Len(name) - 10] = "/")

\* C6: the path of an M or D line contains no "Attic/" and no "RCS/", does
\* not end in ",v", and is the master name with a final ".cvsignore" made
\* ".gitignore" exactly when the base name of the master name is
\* ".cvsignore"; any other name is written unchanged.
C6_PathTranslation ==
    \A i \in Pos("M") \cup Pos("D") :
       /\ ~Contains(stream[i].text, AtticSlash)
       /\ ~Contains(stream[i].text, RcsSlash)
       /\ ~(Len(stream[i].text) >= 2 /\ Suffix(stream[i].text, 2) = CommaV)
       /\ stream[i].text =
             IF BasenameIsCvsignore(SourceName(i))
             THEN SubSeq(SourceName(i), 1, Len(SourceName(i)) - 10) \o DotGitignore
             ELSE SourceName(i)

\* the timestamp the committer line of commit c carries, or would carry:
\* display_date at the commit's own mark
OwnTimestamp(c) == display_date(repo.date[c], markmap[cserial[c]], opts.force_dates)

\* C7: with fromtime = T > 0, a commit record is written for a planned
\* commit exactly when its timestamp is > T, with and without force_dates.
C7_IncrementalSuppression ==
    (Done /\ opts.fromtime > 0) =>
       \A c \in Commits : (c \in Emitted) <=> (OwnTimestamp(c) > opts.fromtime)

\* line i is the first commit record of its branch in the stream
FirstOfBranch(i) ==
    /\ stream[i].t = "commit"
    /\ \A j \in 1..(i - 1) : ~(stream[j].t = "commit" /\ stream[j].ref = stream[i].ref)

\* C8: with fromtime = T > 0, the first emitted commit of a branch whose
\* parent was suppressed has 'from <branch>^0' written before its record.
C8_IncrementalAnchoring ==
    (Done /\ opts.fromtime > 0) =>
       \A i \in Pos("commit") :
          (/\ FirstOfBranch(i)
           /\ repo.parent[stream[i].c] # NULL
           /\ repo.parent[stream[i].c] \notin Emitted)
          => \E k \in 1..(i - 1) :
                stream[k].t = "anchor" /\ stream[k].ref = stream[i].ref

\* C9: in canonical mode, if the topological check succeeded, commits of one
\* branch are emitted in the order of their timestamps.
C9_TimeMonotonicity ==
    (reportmode = "canonical" /\ pc \in {"emit", "done"} /\ sortable) =>
       \A i, j \in Pos("commit") :
          (i < j /\ stream[i].ref = stream[j].ref)
          => repo.date[stream[i].c] <= repo.date[stream[j].c]

\* a finished sorted run that emitted two commits of one branch with
\* different dates, and in which the sort moved a commit of another branch
\* between them
C9_Witness ==
    /\ Done
    /\ reportmode = "canonical"
    /\ sortable
    /\ \E i, j, k \in Pos("commit") :
          /\ i < k /\ k < j
          /\ stream[i].ref = stream[j].ref
          /\ stream[k].ref # stream[i].ref
          /\ repo.date[stream[i].c] < repo.date[stream[j].c]

\* the commit records of a stream without their fileops: the lines that say
\* which commit was written where
CommitOrder(out) ==
    SelectSeq(Text(out), LAMBDA l : l.t \in {"commit", "committer", "log"})

\* C10: two runs over the same input write the same stream; in particular
\* the order of the commit records is the same.
C10_Determinism ==
    (run = 2 /\ Done) => CommitOrder(stream) = CommitOrder(prev)


\* what the mark n stands for in the stream out: the commit or the file
\* revision whose 'mark :n' line it is
MarkOwner(out, n) ==
    LET at == {i \in 1..Len(out) : out[i].t = "mark" /\ out[i].n = n}
    IN IF at = {} THEN [c |-> 0, f |-> NoRev]
       ELSE LET i == CHOOSE k \in at : TRUE IN [c |-> out[i].c, f |-> out[i].f]

\* the lines of the commit records of out
RecordLines(out) ==
    SelectSeq(out, LAMBDA l :
        l.c # 0 /\ l.t \in {"commit", "committer", "log", "from", "M", "D", "Minline"})

\* the commit records of out with every mark replaced by what it stands
\* for; the time of the committer line is kept when withtime
Records(out, withtime) ==
    LET ls == RecordLines(out)
    IN [i \in 1..Len(ls) |->
          [t |-> ls[i].t, c |-> ls[i].c, ref |-> ls[i].ref, text |-> ls[i].text,
           mode |-> ls[i].mode,
           time |-> IF ls[i].t = "committer" /\ withtime THEN ls[i].n ELSE 0,
           to |-> IF ls[i].t \in {"from", "M"} THEN MarkOwner(out, ls[i].n)
                  ELSE [c |-> 0, f |-> NoRev]]]

\* the file revisions whose content out carries in a blob record
BlobSet(out) == {out[i].f : i \in {k \in 1..Len(out) : out[k].t = "blob"}}

IsFileop(r) == r.t \in {"M", "D", "Minline"}

\* the commit records of out without their fileops
RecordHeads(out, withtime) == SelectSeq(Records(out, withtime), LAMBDA r : ~IsFileop(r))

\* the fileops of the record of commit c in out
FileopsOf(out, c) == {r \in Range(Records(out, FALSE)) : r.c = c /\ IsFileop(r)}

\* the file revisions the M lines of out refer to
ModifiedSet(out) == {out[i].f : i \in {k \in 1..Len(out) : out[k].t = "M"}}

Ended == pc \in {"done", "crashed", "fatal"}

\* C13: for one branch head 'master' without commits the export completes
\* normally and the stream is the 'done' line alone: no commit, no mark, no
\* reset.
C13_EmptyRepository ==
    (Ended /\ repo = EmptyRepo) =>
       /\ pc = "done"
       /\ Text(stream) = <<Line("done", 0, "", <<>>, <<>>, 0, NoRev)>>


\* export_commits has resolved the mode and has not yet cleaned up
Running == pc \in {"generate", "emit"}

\* C14 as claimed: canonical whenever a cutoff is set; otherwise an adaptive
\* request becomes canonical when the source-byte figure is below the
\* threshold and fast when it is not (an explicit request is kept); the
\* temporary directory exists if and only if the mode is canonical.
C14_ModeSelectionBelow ==
    Running =>
       /\ reportmode =
             IF opts.fromtime > 0 THEN "canonical"
             ELSE IF opts.reportmode # "adaptive" THEN opts.reportmode
             ELSE IF repo.textsize < SMALL_REPOSITORY THEN "canonical"
             ELSE "fast"
       /\ blobdir <=> (reportmode = "canonical")

\* C14 as amended: as above, with an adaptive request becoming canonical
\* when the source-byte figure is at or below the threshold and fast only
\* when it is above it.
C14_ModeSelectionAtOrBelow ==
    Running =>
       /\ reportmode =
             IF opts.fromtime > 0 THEN "canonical"
             ELSE IF opts.reportmode # "adaptive" THEN opts.reportmode
             ELSE IF repo.textsize <= SMALL_REPOSITORY THEN "canonical"
             ELSE "fast"
       /\ blobdir <=> (reportmode = "canonical")

\* an adaptive run without cutoff over a repository of exactly the
\* threshold size, resolved to canonical, its temporary directory created
C14_Witness ==
    /\ Running
    /\ opts.reportmode = "adaptive"
    /\ opts.fromtime = 0
    /\ repo.textsize = SMALL_REPOSITORY
    /\ reportmode = "canonical"
    /\ blobdir


\* the positions of the reset records of tag t
TagResets(t) == {i \in Pos("tagreset") : stream[i].ref = t.name}

\* C15: a 'reset refs/tags/<name>' record is written for a tag if and only
\* if the record of its target commit was written; it comes after that
\* record and its 'from :N' carries the mark written in that record.  With
\* and without force_dates and fromtime.
C15_TagResets ==
    Done =>
       \A k \in 1..Len(repo.tags) :
          LET t == repo.tags[k] IN
          /\ (TagResets(t) # {}) <=> (t.commit \in Emitted)
          /\ \A i \in TagResets(t) :
                \E j \in 1..(i - 1) :
                   /\ stream[j].t = "mark"
                   /\ stream[j].c = t.commit
                   /\ stream[i + 1].t = "from"
                   /\ stream[i + 1].n = stream[j].n


\* the positions of the reset records of branch head h
BranchResets(h) == {i \in Pos("reset") : stream[i].ref = h.ref_name}

\* C16: every branch reset record comes after the last commit record; there
\* is one, with the mark of the head commit, for each branch head whose head
\* commit was emitted, and none for the others; 'done' is the last line.
C16_StreamTail ==
    Done =>
       /\ stream[Len(stream)].t = "done"
       /\ Pos("done") = {Len(stream)}
       /\ \A i \in Pos("reset") : \A j \in 1..Len(stream) : stream[j].c # 0 => j < i
       /\ \A k \in 1..Len(repo.heads) :
             LET h == repo.heads[k] IN
             /\ Cardinality(BranchResets(h)) = IF h.commit \in Emitted THEN 1 ELSE 0
             /\ \A i \in BranchResets(h) :
                   \E j \in 1..(i - 1) :
                      /\ stream[j].t = "mark"
                      /\ stream[j].c = h.commit
                      /\ stream[i + 1].t = "from"
                      /\ stream[i + 1].n = stream[j].n


\* the authors of the commits in Phase-A order: the branches in the order of
\* the head list, each from its root to its head
PhaseAAuthors == [i \in 1..Len(canonicalize) |-> repo.author[canonicalize[i].commit]]

\* the first place of author a in Phase-A order
FirstSeen(a) ==
    CHOOSE i \in 1..Len(PhaseAAuthors) :
       PhaseAAuthors[i] = a /\ \A j \in 1..(i - 1) : PhaseAAuthors[j] # a

\* C17: export_authors prints every author of a commit of the Phase-A plan
\* exactly once, in the order of first occurrence, and nothing else.
C17_AuthorsOnceInOrder ==
    pc = "authors" =>
       /\ \A i \in 1..Len(stream) : stream[i].t = "author"
       /\ {stream[i].text : i \in 1..Len(stream)} = Range(PhaseAAuthors)
       /\ \A i, j \in 1..Len(stream) :
             i < j => (/\ stream[i].text # stream[j].text
                       /\ FirstSeen(stream[i].text) < FirstSeen(stream[j].text))

\* export_authors has printed two authors for three commits, the author of
\* the first commit being also that of the third
C17_Witness ==
    /\ pc = "authors"
    /\ Len(stream) = 2
    /\ Len(PhaseAAuthors) = 3
    /\ PhaseAAuthors[1] = PhaseAAuthors[3]
    /\ PhaseAAuthors[1] # PhaseAAuthors[2]


\* the commits export_commit has been called for, and with it, for those
\* that have a parent, compute_parent_links
Exported == {c \in Commits : cserial[c] # 0}

\* the file revision of commit p with the master of cf, NoRev if p has none
SameMaster(p, cf) ==
    IF \E pf \in Range(FilesOf(p)) : pf[1] = cf[1]
    THEN CHOOSE pf \in Range(FilesOf(p)) : pf[1] = cf[1]
    ELSE NoRev

\* C18: after compute_parent_links for a commit with parent P, a file
\* revision cf of the commit is linked to pf exactly when pf is the file
\* revision of P with the same master name (to nothing when P has none), the
\* links are reciprocal, and the Bloom test skips cf only when the filter of
\* its name and the filter of P have no bit in common.
C18_ParentLinks ==
    \A c \in Exported :
       repo.parent[c] # NULL =>
          LET P == repo.parent[c]
              other == compute_parent_links(c)
          IN /\ \A cf \in Range(FilesOf(c)) :
                   /\ other[cf] = SameMaster(P, cf)
                   /\ bloom_skip(cf, P) => atom_bloom(cf[1]) \cap CommitBloom(P) = {}
             /\ \A cf \in Range(FilesOf(c)), pf \in Range(FilesOf(P)) :
                   (other[cf] = pf) <=> (other[pf] = cf)


\* the number of lines of kind t the record of commit c holds for f
FileopCount(t, c, f) ==
    Cardinality({i \in Pos(t) : stream[i].c = c /\ stream[i].f = f})

\* the file revisions of c that its parent lacks or holds in another revision
ModifiedIn(c) ==
    {cf \in Range(FilesOf(c)) :
        \/ repo.parent[c] = NULL
        \/ SameMaster(repo.parent[c], cf) # cf}

\* the masters the parent of c holds and c does not
DeletedIn(c) ==
    IF repo.parent[c] = NULL THEN {}
    ELSE {pf[1] : pf \in {g \in Range(FilesOf(repo.parent[c])) : SameMaster(c, g) = NoRev}}

\* C19: the record of a commit without parent holds exactly one M for each
\* of its file revisions; the record of a commit with parent holds exactly
\* one M for each file revision the parent lacks or holds with another
\* serial, one D for each file only the parent holds, and nothing else: a
\* file with the same serial in commit and parent yields no fileop.
C19_FileopBuilder ==
    \A c \in Emitted :
       /\ \A f \in FileRevs :
             FileopCount("M", c, f) = IF f \in ModifiedIn(c) THEN 1 ELSE 0
       /\ \A m \in DOMAIN repo.mname :
             FileopCount("D", c, <<m, 0>>) = IF m \in DeletedIn(c) THEN 1 ELSE 0


\* C20: in every run (fast, canonical sorted, canonical in the order of
\* canonicalize) a commit that has a parent is passed to export_commit after
\* its parent, the root of a branch whose parent lies on another branch
\* included; the serial export_commit gives a commit tells the order.
C20_ParentsFirst ==
    \A c \in Exported :
       repo.parent[c] # NULL =>
          /\ repo.parent[c] \in Exported
          /\ cserial[repo.parent[c]] < cserial[c]


\* the i-th commit of the walk from commit c toward the root, counted from 0;
\* NULL when the walk has ended, which it does after a commit with the tail
\* flag
RECURSIVE Nth(_, _)
Nth(c, i) ==
    IF i = 0 THEN c
    ELSE LET q == Nth(c, i - 1)
         IN IF q = NULL \/ repo.ctail[q] THEN NULL ELSE repo.parent[q]

\* the length of the span of head h
WalkLen(h) ==
    IF repo.heads[h].tail THEN 0
    ELSE Cardinality({i \in 0..NCommits : Nth(repo.heads[h].commit, i) # NULL})

\* the number of slots the heads before h fill
RECURSIVE SpanBase(_)
SpanBase(h) == IF h = 1 THEN 0 ELSE SpanBase(h - 1) + WalkLen(h - 1)

\* canonicalize has been called
Planned == reportmode = "canonical" /\ pc \in {"emit", "done"}

\* C21: canonicalize fills exactly export_total_commits slots; the heads
\* without the tail flag occupy consecutive spans in head-list order, heads
\* with the tail flag contribute nothing, and in the span of length L that
\* starts at base the slot base+L-1-i (counted from 0) holds the i-th commit
\* of the walk from the head toward the root, which ends with the first
\* commit whose tail flag is set.
C21_PhaseALayout ==
    Planned =>
       /\ Len(canonicalize) = export_ncommit
       /\ Len(canonicalize) = SpanBase(Len(repo.heads)) + WalkLen(Len(repo.heads))
       /\ \A h \in DOMAIN repo.heads :
             \A i \in 0..(WalkLen(h) - 1) :
                LET slot == canonicalize[SpanBase(h) + WalkLen(h) - 1 - i + 1]
                IN /\ slot.commit = Nth(repo.heads[h].commit, i)
                   /\ slot.head = h

\* a plan whose first span holds two commits and whose second span ends at a
\* commit with the tail flag
C21_Witness ==
    /\ Planned
    /\ WalkLen(1) >= 2
    /\ \E h \in DOMAIN repo.heads :
          /\ h > 1
          /\ WalkLen(h) >= 1
          /\ \E c \in Commits : repo.ctail[c] /\ Nth(repo.heads[h].commit, WalkLen(h) - 1) = c


\* the number of slots of the plan
PlanLen == SpanBase(Len(repo.heads)) + WalkLen(Len(repo.heads))

\* the head whose span holds slot k, and the commit of that slot: the spans
\* in head-list order, each from the root end of its chain to the head
SpanOf(k) == CHOOSE h \in DOMAIN repo.heads : SpanBase(h) < k /\ k <= SpanBase(h) + WalkLen(h)
SlotCommit(k) == Nth(repo.heads[SpanOf(k)].commit, SpanBase(SpanOf(k)) + WalkLen(SpanOf(k)) - k)

\* the 'commit' lines of the stream, in stream order
CommitHeads == SelectSeq(stream, LAMBDA l : l.t = "commit")

\* C22: in fast mode the commit records come grouped by branch in head-list
\* order, heads with the tail flag skipped, and in each group from the root
\* end of the chain (cut at the first commit with the tail flag) to the
\* head; the k-th record is the one of the k-th slot of that layout, on the
\* ref of its head, and a finished run has written them all.
C22_FastOrder ==
    reportmode = "fast" =>
       /\ Len(CommitHeads) <= PlanLen
       /\ \A k \in 1..Len(CommitHeads) :
             /\ CommitHeads[k].c = SlotCommit(k)
             /\ CommitHeads[k].ref = repo.heads[SpanOf(k)].ref_name
       /\ Done => Len(CommitHeads) = PlanLen

\* a finished fast run over two branches, the second cut at a commit with
\* the tail flag, whose dates are not in the order of the records
C22_Witness ==
    /\ reportmode = "fast"
    /\ Done
    /\ WalkLen(1) >= 2
    /\ \E h \in DOMAIN repo.heads :
          h > 1 /\ WalkLen(h) >= 1 /\ repo.ctail[Nth(repo.heads[h].commit, WalkLen(h) - 1)]
    /\ \E k \in 1..(PlanLen - 1) : repo.date[SlotCommit(k)] > repo.date[SlotCommit(k + 1)]


\* some planned commit has a parent with a later timestamp
YoungerParent ==
    \E k \in 1..PlanLen :
       /\ repo.parent[SlotCommit(k)] # NULL
       /\ repo.date[repo.parent[SlotCommit(k)]] > repo.date[SlotCommit(k)]

\* export_commit is called on the plan in the order of the slots of Phase A
PhaseAOrder ==
    /\ \A k \in 1..PlanLen : history[k].commit = SlotCommit(k)
    /\ \A k \in 1..PlanLen :
          SlotCommit(k) \in Exported =>
             \A j \in 1..(k - 1) :
                SlotCommit(j) \in Exported /\ cserial[SlotCommit(j)] < cserial[SlotCommit(k)]

FirstRecord == CommitHeads[1].c

\* the record of commit c holds 'M <mode> :<mark> .gitignore'
ModifiesGitignore(c) ==
    \E i \in Pos("M") : stream[i].c = c /\ stream[i].text = DotGitignore

\* the number of synthetic .gitignore records in the record of commit c
SyntheticCount(c) == Cardinality({i \in Pos("Minline") : stream[i].c = c})

\* C24: the synthetic 'M 100644 inline .gitignore' is written in the first
\* commit record of the stream exactly when that record holds no Modify of
\* the path .gitignore, and in no later commit record.
C24_SyntheticGitignore ==
    \A c \in Emitted :
       SyntheticCount(c) =
          IF c = FirstRecord /\ ~ModifiesGitignore(c) THEN 1 ELSE 0


\* C25: every tag reset record is written after all commit records of the
\* run: no commit record follows a 'reset refs/tags/...' record.
C25_TagResetsLast ==
    \A i \in Pos("tagreset"), j \in Pos("commit") : j < i

\* the commit the tag named name points to
TagCommit(name) ==
    (CHOOSE t \in Range(repo.tags) : t.name = name).commit

\* C25 as amended: a tag reset record is written directly after the export
\* of the commit the tag points to and before the record of the next commit:
\* it refers to the mark of its commit, every commit record before it is of
\* a commit exported no later than that commit, and every commit record
\* after it is of a commit exported later.
C25_TagResetsFollowCommit ==
    \A i \in Pos("tagreset") :
       LET c == TagCommit(stream[i].ref)
       IN /\ c \in Exported
          /\ stream[i + 1].t = "from"
          /\ stream[i + 1].n = markmap[cserial[c]]
          /\ \A j \in Pos("commit") :
                IF j < i THEN cserial[stream[j].c] <= cserial[c]
                ELSE cserial[stream[j].c] > cserial[c]

\* a tag reset with the record of its commit before it and a commit record
\* after it
C25_Witness ==
    \E i \in Pos("tagreset") :
       /\ \E j \in Pos("commit") : j < i /\ stream[j].c = TagCommit(stream[i].ref)
       /\ \E j \in Pos("commit") : j > i


\* C26: every assignment of a serial, to a file revision in export_blob and
\* to a commit in export_commit, ends the run with a fatal error when the
\* new serial would reach MAX_SERIAL_T: no file revision and no commit has
\* a serial of MAX_SERIAL_T or more, and the counter reaches MAX_SERIAL_T
\* only in a run that has failed.
C26_SerialOverflowFatal ==
    /\ \A f \in FileRevs : fserial[f] < MAX_SERIAL_T
    /\ \A c \in Commits : cserial[c] < MAX_SERIAL_T
    /\ seqno >= MAX_SERIAL_T => pc = "fatal"


\* the positions of the committer lines; the line before each is the mark
\* line of the same commit
Committers == Pos("committer")

\* C27: with force_dates the timestamp of a committer line is
\* 100000 + mark * commit_time_window * 2 for the mark of its own commit;
\* the timestamps are therefore strictly increasing in stream order and
\* never below 100000, whatever the dates of the commits.
C27_ForcedDates ==
    opts.force_dates =>
       /\ \A i \in Committers :
             /\ stream[i - 1].t = "mark"
             /\ stream[i - 1].c = stream[i].c
             /\ stream[i].n = 100000 + stream[i - 1].n * commit_time_window * 2
             /\ stream[i].n >= 100000
       /\ \A i, j \in Committers : i < j => stream[i].n < stream[j].n

\* a finished run with force_dates that wrote a commit after one with a
\* later date
C27_Witness ==
    /\ opts.force_dates
    /\ Done
    /\ \E i, j \in Committers :
          i < j /\ repo.date[stream[i].c] > repo.date[stream[j].c]


\* the buffer b holds exactly the fileops ops, every store went into the
\* allocated array, and the cursor points into the array as it now is
Sound(b, ops) == ~b.bad /\ b.live /\ b.list = ops

\* C28: while the fileops of a commit are built, whatever their number, every
\* store through the cursor lands inside the allocated buffer, the cursor is
\* re-based after each reallocation, and the finished list holds every
\* appended fileop once, in the order of the appends; the record written
\* holds that many fileops.  Stated of the builder of export_commit and of
\* the builder of the older export_commit.
C28_BufferGrowth ==
    \A c \in Exported, moved \in BOOLEAN :
       /\ Sound(BuildFrom(AppendedOps(c), 1, NewBuffer, moved), AppendedOps(c))
       /\ Sound(BuildOldFrom(AppendedOpsOld(c), 1, NewBuffer, moved), AppendedOpsOld(c))
       /\ c \in Emitted =>
             Cardinality({i \in Pos("M") \cup Pos("D") : stream[i].c = c})
                = Len(AppendedOps(c))


\* the sign of an integer
Sgn(x) == IF x < 0 THEN -1 ELSE IF x > 0 THEN 1 ELSE 0

\* sort_by_date on the plan entries of two commits
Cmp(a, b) == sort_by_date(CommitSeq(a, 1), CommitSeq(b, 1))

\* exchanging the arguments of the comparator reverses the sign of its
\* result
Antisymmetric == \A a, b \in Commits : Sgn(Cmp(a, b)) = -Sgn(Cmp(b, a))

\* C29: the comparator of the sort of the plan is a consistent ordering of
\* the planned commits: exchanging the arguments reverses the sign, and
\* Cmp(a, b) <= 0 and Cmp(b, c) <= 0 imply Cmp(a, c) <= 0.
C29_ComparatorConsistent ==
    (Planned /\ sortable) =>
       /\ Antisymmetric
       /\ \A a, b, c \in Commits :
             (Cmp(a, b) <= 0 /\ Cmp(b, c) <= 0) => Cmp(a, c) <= 0


\* the positions of the M and D lines of the record of commit c
FileopLinesOf(c) == {i \in Pos("M") \cup Pos("D") : stream[i].c = c}

\* C30: the fileop list of one commit never holds two operations with the
\* same output path; in particular it never holds both an M and a D for a
\* path whose file is in the commit and in its parent.
C30_NoConflictingFileops ==
    \A c \in Emitted :
       \A i, j \in FileopLinesOf(c) : i # j => stream[i].text # stream[j].text


\* line i belongs to a blob record
BlobRecordLine(i) == stream[i].t \in {"blob", "mark", "data"} /\ stream[i].c = 0

\* the blob record at line i stands directly before the record of the first
\* commit of the stream that carries a Modify for its file revision: only
\* lines of blob records lie between it and a commit record with an M line
\* for the file revision, and no M line for it comes earlier
BeforeFirstModify(i) ==
    \E j \in Pos("commit") :
       /\ j > i
       /\ \A k \in i..(j - 1) : BlobRecordLine(k)
       /\ \E m \in Pos("M") : stream[m].c = stream[j].c /\ stream[m].f = stream[i].f
       /\ \A m \in Pos("M") : stream[m].f = stream[i].f => m > j

\* C31: in fast mode every blob record precedes every commit record.  In
\* canonical mode no blob record is written during generation; each blob
\* record stands directly before the record of the first emitted commit
\* with a Modify for its file revision; the entry it was read from had been
\* stored during generation; and after that one read the entry is unlinked
\* and the file revision is flagged emitted, so that it is not read again.
C31_BlobPlacement ==
    /\ reportmode = "fast" => \A i \in Pos("blob"), j \in Pos("commit") : i < j
    /\ reportmode = "canonical" =>
          /\ pc = "generate" => Pos("blob") = {}
          /\ \A e \in blobs : fserial[e.f] = e.serial /\ ~femitted[e.f]
          /\ \A f \in FileRevs : femitted[f] => \E i \in Pos("blob") : stream[i].f = f
          /\ \A i \in Pos("blob") :
                /\ fserial[stream[i].f] # 0
                /\ femitted[stream[i].f]
                /\ \A e \in blobs : e.f # stream[i].f
                /\ \A j \in Pos("blob") : stream[j].f = stream[i].f => j = i
                /\ BeforeFirstModify(i)

\* a finished canonical run in which the records of two commits carry a
\* Modify for one file revision, whose blob was written once, and in which
\* a blob record follows a commit record
C31_Witness ==
    /\ reportmode = "canonical"
    /\ Done
    /\ \E i, j \in Pos("M") : stream[i].f = stream[j].f /\ stream[i].c # stream[j].c
    /\ \E i \in Pos("blob"), j \in Pos("commit") : j < i


\* forest->total_revisions: the number of file revisions the generators
\* deliver
TotalRevisions == Len(Generated)

\* the file revisions that have received content
Served == {f \in FileRevs : fserial[f] # 0}

\* C32: throughout a run the serials of the file revisions that received
\* content and of the commits that were exported are pairwise different and
\* lie in 1..total_revisions + export_total_commits; once export_commits has
\* allocated the mark map each of them is an index of it, only their slots
\* are bound, and slot 0 is never bound.
C32_SerialValidity ==
    /\ \A f, g \in Served : fserial[f] = fserial[g] => f = g
    /\ \A c, d \in Exported : cserial[c] = cserial[d] => c = d
    /\ \A f \in Served, c \in Exported : fserial[f] # cserial[c]
    /\ \A f \in Served : fserial[f] \in 1..(TotalRevisions + export_ncommit)
    /\ \A c \in Exported : cserial[c] \in 1..(TotalRevisions + export_ncommit)
    /\ pc \notin {"start", "authors"} =>
          /\ DOMAIN markmap = 0..(TotalRevisions + export_ncommit)
          /\ markmap[0] = 0
          /\ \A s \in DOMAIN markmap :
                markmap[s] # 0 =>
                   \/ \E f \in Served : fserial[f] = s
                   \/ \E c \in Exported : cserial[c] = s

\* a finished run over two branches, one cut at a commit with the tail
\* flag, in which every slot of the mark map but slot 0 is bound
C32_Witness ==
    /\ Done
    /\ Len(repo.heads) >= 2
    /\ \E c \in Commits : repo.ctail[c]
    /\ Exported = Commits
    /\ \A s \in DOMAIN markmap : s # 0 => markmap[s] # 0

====
